---- MODULE Spec2Model ----
(***************************************************************************)
(* Model of src/main.py: the extractor (extract_routes_from_module,        *)
(* extract_routes_from_file) and the synthesizer (generate_openapi_spec)   *)
(* as run by custom_openapi.                                               *)
(*                                                                         *)
(* Strings that the code transforms or concatenates (app name, file name,  *)
(* function name, HTTP verbs, paths) are sequences of one-character        *)
(* strings, so that str.lower, str.endswith, os.path.splitext and the      *)
(* f-string of the path are computed and not assumed.  Python values of    *)
(* a decorator literal are tagged with their type: [type, v].              *)
(***************************************************************************)
EXTENDS Integers, Sequences, FiniteSets, TLC

VARIABLES
    app_name,    \* custom_openapi's app_name argument
    pc,          \* "scan" | "gen" | "method" | "done" | "extract_raised" | "generate_raised"
    scanned,     \* the files os.walk has yielded so far, in order
    all_routes,  \* extract_routes_from_module: all_routes
    origin,      \* for all_routes[i]: the (file, node, decorator) it was built from
    paths,       \* generate_openapi_spec: openapi_schema["paths"]
    tags,        \* generate_openapi_spec: the local set `tags`
    doc_tags,    \* generate_openapi_spec: openapi_schema["tags"] (None until set)
    ri,          \* generate_openapi_spec: index of `route` in the outer loop
    mi           \* generate_openapi_spec: index of `method` in the inner loop

vars == <<app_name, pc, scanned, all_routes, origin, paths, tags, doc_tags, ri, mi>>

(***************************************************************************)
(* Bounds                                                                  *)
(***************************************************************************)
MaxFiles == 2     \* files yielded by one os.walk
MaxArgs == 2      \* positional parameters of a function

(***************************************************************************)
(* Python values and strings                                               *)
(***************************************************************************)
None == [kind |-> "None"]

Str(s) == [type |-> "str", v |-> s]

IntOne == [type |-> "int", v |-> <<"1">>]

POST == <<"P", "O", "S", "T">>

PUT == <<"P", "U", "T">>

GET == <<"G", "E", "T">>

post == <<"p", "o", "s", "t">>

DotPy == <<".", "p", "y">>

Range(s) == {s[i] : i \in 1..Len(s)}

\* str.lower on one character (the upper-case letters the model uses)
LowerChar(c) ==
    CASE c = "A" -> "a" [] c = "E" -> "e" [] c = "F" -> "f" [] c = "G" -> "g"
      [] c = "M" -> "m" [] c = "O" -> "o" [] c = "P" -> "p" [] c = "S" -> "s"
      [] c = "T" -> "t" [] c = "U" -> "u" [] c = "Y" -> "y"
      [] OTHER -> c

\* str.lower
Lower(s) == [i \in 1..Len(s) |-> LowerChar(s[i])]

\* str.endswith
EndsWith(s, suffix) ==
    /\ Len(s) >= Len(suffix)
    /\ SubSeq(s, Len(s) - Len(suffix) + 1, Len(s)) = suffix

\* os.path.splitext(file)[0]: cut at the last dot, unless only dots precede it
SplitExtRoot(file) ==
    LET dots == {i \in 1..Len(file) : file[i] = "."}
        last == IF dots = {} THEN 0 ELSE CHOOSE i \in dots : \A j \in dots : j <= i
    IN  IF last = 0 \/ (\A j \in 1..(last - 1) : file[j] = ".")
        THEN file
        ELSE SubSeq(file, 1, last - 1)

(***************************************************************************)
(* Syntax trees (the part of an ast.Module the extractor looks at)         *)
(***************************************************************************)
Const(val) == [kind |-> "Constant", value |-> val]

NameExpr == [kind |-> "Name"]

TupleExpr == [kind |-> "Tuple", elts |-> <<Const(Str(GET))>>]

CallExpr == [kind |-> "Call"]

ListExpr(elts) == [kind |-> "List", elts |-> elts]

Keyword(arg, value) == [arg |-> arg, value |-> value]

\* @<func>(<keywords>) when call, @<func> otherwise
Decorator(call, func, keywords) == [call |-> call, func |-> func, keywords |-> keywords]

Attribute(attr) == [kind |-> "Attribute", attr |-> attr]

Node(kind, name, decorator_list, args, defaults, docstring, body) ==
    [kind |-> kind, name |-> name, decorator_list |-> decorator_list,
     args |-> args, defaults |-> defaults, docstring |-> docstring, body |-> body]

(***************************************************************************)
(* extract_routes_from_file                                                *)
(***************************************************************************)
\* ast.walk: breadth-first, a node before the nodes of its body
RECURSIVE Walk(_)
Walk(todo) ==
    IF todo = <<>> THEN <<>>
    ELSE <<Head(todo)>> \o Walk(Tail(todo) \o Head(todo).body)

\* lines 18-22: the decorator is a call of an attribute named whitelist
IsWhitelistCall(decorator) ==
    /\ decorator.call
    /\ decorator.func.kind = "Attribute"
    /\ decorator.func.attr = "whitelist"

\* lines 23-29: the value of the first keyword named methods, else None
RECURSIVE MethodsArg(_)
MethodsArg(keywords) ==
    IF keywords = <<>> THEN None
    ELSE IF Head(keywords).arg = "methods" THEN Head(keywords).value
    ELSE MethodsArg(Tail(keywords))

\* line 32: `method.s` exists on a Constant only; on any other node it raises
HasAttrS(expr) == expr.kind = "Constant"

\* lines 31-32: the list comprehension raises AttributeError
MethodsRaises(methods_arg) ==
    /\ methods_arg.kind = "List"
    /\ \E i \in 1..Len(methods_arg.elts) : ~HasAttrS(methods_arg.elts[i])

\* Methods without the branch of lines 33-34
MethodsListOnly(methods_arg) ==
    IF methods_arg.kind = "List"
    THEN [i \in 1..Len(methods_arg.elts) |-> methods_arg.elts[i].value]
    ELSE <<Str(POST)>>

\* lines 31-36
Methods(methods_arg) ==
    IF methods_arg.kind = "List"
    THEN [i \in 1..Len(methods_arg.elts) |-> methods_arg.elts[i].value]
    ELSE IF methods_arg.kind = "Constant"
    THEN <<methods_arg.value>>
    ELSE <<Str(POST)>>

\* lines 39-41: node.args.defaults + [None] * (len(args) - len(defaults))
PaddedDefaults(args, defaults) ==
    defaults \o [i \in 1..(Len(args) - Len(defaults)) |-> None]

\* ParamIn looking at the first method only
ParamInFirstMethod(methods) ==
    IF methods # <<>> /\ methods[1] \in {Str(POST), Str(PUT)}
    THEN "body" ELSE "query"

\* lines 45-49
ParamIn(methods) ==
    IF Str(POST) \in Range(methods) \/ Str(PUT) \in Range(methods)
    THEN "body" ELSE "query"

StringSchema == [type |-> "string"]

\* lines 38-58
Params(node, methods) ==
    LET padded == PaddedDefaults(node.args, node.defaults)
    IN  [i \in 1..Len(node.args) |->
            [name |-> node.args[i],
             in |-> ParamIn(methods),
             required |-> ~(padded[i] # None),
             schema |-> StringSchema]]

\* lines 60-61: first line of the docstring, "" without one
DocSummary(docstring) == IF docstring = <<>> THEN "" ELSE docstring[1]

PathPrefix == <<"/", "a", "p", "i", "/", "m", "e", "t", "h", "o", "d", "s", "/">>

DotApiDot == <<".", "a", "p", "i", ".">>

\* RoutePath without app_name.lower()
RoutePathNoLower(app, file_name, function_name) ==
    PathPrefix \o app \o DotApiDot \o file_name \o <<".">> \o function_name

\* line 65
RoutePath(app, file_name, function_name) ==
    PathPrefix \o Lower(app) \o DotApiDot \o file_name \o <<".">> \o function_name

\* lines 63-71
Route(node, decorator, file_name, app) ==
    LET methods == Methods(MethodsArg(decorator.keywords))
    IN  [function_name |-> node.name,
         path |-> RoutePath(app, file_name, node.name),
         method |-> methods,
         params |-> Params(node, methods),
         doc |-> DocSummary(node.docstring),
         responses |-> <<>>,
         tag |-> file_name]

\* lines 15-22: the (node, decorator) pairs that produce a route, in order
RECURSIVE MatchesOfDecorators(_, _)
MatchesOfDecorators(node, decorators) ==
    IF decorators = <<>> THEN <<>>
    ELSE (IF IsWhitelistCall(Head(decorators))
          THEN <<[node |-> node, decorator |-> Head(decorators)]>>
          ELSE <<>>)
         \o MatchesOfDecorators(node, Tail(decorators))

RECURSIVE MatchesOfNodes(_)
MatchesOfNodes(nodes) ==
    IF nodes = <<>> THEN <<>>
    ELSE (IF Head(nodes).kind = "FunctionDef"
          THEN MatchesOfDecorators(Head(nodes), Head(nodes).decorator_list)
          ELSE <<>>)
         \o MatchesOfNodes(Tail(nodes))

Matches(tree) == MatchesOfNodes(Walk(tree))

\* the call raises (AttributeError at line 32) on some matching decorator
ExtractRaises(tree) ==
    \E i \in 1..Len(Matches(tree)) :
        MethodsRaises(MethodsArg(Matches(tree)[i].decorator.keywords))

\* lines 9-74: the routes the call returns when it does not raise
extract_routes_from_file(tree, file_name, app) ==
    LET m == Matches(tree)
    IN  [i \in 1..Len(m) |-> Route(m[i].node, m[i].decorator, file_name, app)]

(***************************************************************************)
(* generate_openapi_spec                                                   *)
(***************************************************************************)
\* IsPostOrPut comparing the verbs whatever their case
IsPostOrPutAnyCase(method) == Lower(method.v) \in {Lower(POST), Lower(PUT)}

IsPostOrPut(method) == method \in {Str(POST), Str(PUT)}

\* lines 113-115: the dict comprehension (a later parameter of the same name wins)
Properties(params) ==
    [n \in {params[i].name : i \in 1..Len(params)} |->
        LET last == CHOOSE i \in 1..Len(params) :
                        /\ params[i].name = n
                        /\ \A j \in 1..Len(params) : params[j].name = n => j <= i
        IN  params[last].schema]

\* lines 116-120
RECURSIVE Required(_)
Required(params) ==
    IF params = <<>> THEN <<>>
    ELSE (IF Head(params).required THEN <<Head(params).name>> ELSE <<>>)
         \o Required(Tail(params))

\* lines 108-126
RequestBody(params, method) ==
    IF IsPostOrPut(method)
    THEN [content |->
            ("application/json" :>
                [schema |-> [type |-> "object",
                             properties |-> Properties(params),
                             required |-> Required(params)]])]
    ELSE None

DefaultResponses == ("200" :> [description |-> "Successful Response"])

\* lines 104-129: the operation stored for one method of one route
Operation(route, method) ==
    [summary |-> route.doc,
     description |-> route.doc,
     parameters |-> IF ~IsPostOrPut(method) THEN route.params ELSE <<>>,
     requestBody |-> RequestBody(route.params, method),
     responses |-> IF route.responses = <<>> THEN DefaultResponses ELSE route.responses,
     tags |-> <<route.tag>>]

\* lines 101-102
EnsurePath(p, path) == IF path \in DOMAIN p THEN p ELSE (path :> <<>>) @@ p

\* StoreOperation keeping the operation already stored under the key
StoreIfAbsent(p, path, key, operation) ==
    [EnsurePath(p, path) EXCEPT ![path] = @ @@ (key :> operation)]

\* line 104: paths[path][key] = operation
StoreOperation(p, path, key, operation) ==
    [EnsurePath(p, path) EXCEPT ![path] = (key :> operation) @@ @]

\* TagLists naming one tag only (the loop variable instead of the set)
TagListsOneTag(tagset) == {<<[name |-> t]>> : t \in tagset}

\* line 131: the list of a set, in any iteration order
TagLists(tagset) ==
    {l \in [1..Cardinality(tagset) -> {[name |-> t] : t \in tagset}] :
        \A i, j \in DOMAIN l : i # j => l[i] # l[j]}

(***************************************************************************)
(* Inputs: the application names and the files os.walk can yield           *)
(***************************************************************************)
AppNames == {<<"M", "y", "A">>, <<"a">>}

ArgNames == <<"a", "b", "c", "d", "e">>

\* def name(a, b, ...) with n positional parameters, the last d with a default
Function(name, decorator_list, n, d, docstring, body) ==
    Node("FunctionDef", name, decorator_list, SubSeq(ArgNames, 1, n),
         [i \in 1..d |-> Const(None)], docstring, body)

Whitelist(keywords) == Decorator(TRUE, Attribute("whitelist"), keywords)

MethodsKw(value) == <<Keyword("methods", value)>>

AllowGuest == Keyword("allow_guest", Const([type |-> "bool", v |-> <<"T">>]))

\* the values of a `methods` keyword
MethodsValues ==
    {ListExpr(<<>>),
     ListExpr(<<Const(Str(GET))>>),
     ListExpr(<<Const(Str(POST))>>),
     ListExpr(<<Const(Str(post))>>),
     ListExpr(<<Const(Str(GET)), Const(Str(POST))>>),
     ListExpr(<<Const(Str(POST)), Const(Str(post))>>),
     ListExpr(<<Const(Str(PUT)), Const(Str(GET))>>),
     ListExpr(<<Const(Str(GET)), NameExpr>>),
     Const(Str(GET)),
     Const(IntOne),
     TupleExpr,
     NameExpr,
     CallExpr}

KeywordLists ==
    {<<>>, <<AllowGuest>>, <<AllowGuest, Keyword("methods", Const(Str(PUT)))>>}
    \cup {MethodsKw(v) : v \in MethodsValues}

F == <<"f">>

G == <<"G">>

Docstring == <<"Return all users.", "Details...">>

\* every shape of the `methods` keyword, on def f(a, b=None)
DecoratorShapes == {<<Function(F, <<Whitelist(k)>>, 2, 1, <<>>, <<>>)>> : k \in KeywordLists}

\* every split of the parameters into required and defaulted, on a GET route
SignatureShapes ==
    UNION {{<<Function(F, <<Whitelist(MethodsKw(ListExpr(<<Const(Str(GET))>>)))>>,
                       n, d, <<>>, <<>>)>> : d \in 0..n} : n \in 0..MaxArgs}

GetG == Function(G, <<Whitelist(MethodsKw(Const(Str(GET))))>>, 2, 0, Docstring, <<>>)

PostG == Function(G, <<Whitelist(<<>>)>>, 2, 1, Docstring, <<>>)

\* decorators that do not match, stacked decorators, nesting, classes
TreeShapes ==
    {<<>>,
     <<Function(F, <<>>, 1, 0, <<>>, <<>>)>>,
     <<Function(F, <<Decorator(FALSE, Attribute("whitelist"), <<>>)>>, 1, 0, <<>>, <<>>)>>,
     <<Function(F, <<Decorator(TRUE, [kind |-> "Name", id |-> "whitelist"], <<>>)>>, 1, 0, <<>>, <<>>)>>,
     <<Function(F, <<Decorator(TRUE, Attribute("validate"), <<>>), Whitelist(<<>>)>>, 1, 0, <<>>, <<>>)>>,
     <<Function(F, <<Whitelist(<<>>), Whitelist(MethodsKw(Const(Str(GET))))>>, 1, 0, <<>>, <<>>)>>,
     <<Function(F, <<Whitelist(<<>>)>>, 1, 1, <<>>, <<GetG>>), PostG>>,
     <<Node("ClassDef", <<"C">>, <<Whitelist(<<>>)>>, <<>>, <<>>, <<>>, <<GetG>>)>>,
     <<GetG, PostG>>}

File(dir, stem, ext, tree) ==
    [dir |-> dir, file |-> stem \o ext, stem |-> stem, ext |-> ext, tree |-> tree]

\* the directory entries: (root, file) of os.walk with the module the file parses to
Files ==
    {File("", <<"u">>, DotPy, t) : t \in DecoratorShapes \cup SignatureShapes \cup TreeShapes}
    \cup {File("sub", <<"u">>, DotPy, t) : t \in DecoratorShapes}
    \cup {File("sub", <<"u">>, DotPy, <<GetG>>),
          File("sub", <<"U">>, DotPy, <<GetG>>),
          File("", <<"a", ".", "b">>, DotPy, <<PostG>>),
          File("", <<"u">>, <<".", "t", "x", "t">>, <<GetG>>),
          File("", <<"u", "p", "y">>, <<>>, <<GetG>>),
          File("", DotPy, <<>>, <<GetG>>)}

(***************************************************************************)
(* The run of custom_openapi                                               *)
(***************************************************************************)
Init ==
    /\ app_name \in AppNames
    /\ pc = "scan"
    /\ scanned = <<>>
    /\ all_routes = <<>>
    /\ origin = <<>>
    /\ paths = <<>>
    /\ tags = {}
    /\ doc_tags = None
    /\ ri = 1
    /\ mi = 1

\* lines 138-144: one file of os.walk (no directory entry is yielded twice), and
\* extract_routes_from_file on it
WalkFile(f) ==
    /\ pc = "scan"
    /\ Len(scanned) < MaxFiles
    /\ \A k \in 1..Len(scanned) : ~(scanned[k].dir = f.dir /\ scanned[k].file = f.file)
    /\ scanned' = Append(scanned, f)
    /\ IF ~EndsWith(f.file, DotPy)
       THEN UNCHANGED <<pc, all_routes, origin>>
       ELSE IF ExtractRaises(f.tree)
       THEN pc' = "extract_raised" /\ UNCHANGED <<all_routes, origin>>
       ELSE /\ all_routes' = all_routes
                \o extract_routes_from_file(f.tree, SplitExtRoot(f.file), app_name)
            /\ origin' = origin
                \o [i \in 1..Len(Matches(f.tree)) |->
                       [file |-> f, node |-> Matches(f.tree)[i].node,
                        decorator |-> Matches(f.tree)[i].decorator]]
            /\ UNCHANGED pc
    /\ UNCHANGED <<app_name, paths, tags, doc_tags, ri, mi>>

\* lines 146, 149-150: os.walk is exhausted; generate_openapi_spec starts
EndWalk ==
    /\ pc = "scan"
    /\ pc' = "gen"
    /\ UNCHANGED <<app_name, scanned, all_routes, origin, paths, tags, doc_tags, ri, mi>>

\* lines 89-98: the next route of the outer loop
NextRoute ==
    /\ pc = "gen"
    /\ ri <= Len(all_routes)
    /\ tags' = tags \cup {all_routes[ri].tag}
    /\ IF all_routes[ri].method = <<>>
       THEN ri' = ri + 1 /\ UNCHANGED <<pc, mi>>
       ELSE pc' = "method" /\ mi' = 1 /\ UNCHANGED ri
    /\ UNCHANGED <<app_name, scanned, all_routes, origin, paths, doc_tags>>

\* lines 100-129: one method of the inner loop
NextMethod ==
    /\ pc = "method"
    /\ LET route == all_routes[ri]
           method == route.method[mi]
       IN  IF method.type # "str"
           THEN \* method.lower() raises AttributeError after line 102 ran
                /\ paths' = EnsurePath(paths, route.path)
                /\ pc' = "generate_raised"
                /\ UNCHANGED <<ri, mi>>
           ELSE /\ paths' = StoreOperation(paths, route.path, Lower(method.v),
                                           Operation(route, method))
                /\ IF mi < Len(route.method)
                   THEN mi' = mi + 1 /\ UNCHANGED <<pc, ri>>
                   ELSE pc' = "gen" /\ ri' = ri + 1 /\ UNCHANGED mi
    /\ UNCHANGED <<app_name, scanned, all_routes, origin, tags, doc_tags>>

\* lines 131-133: the loop is over; the tags are listed and the document returned
Finish ==
    /\ pc = "gen"
    /\ ri > Len(all_routes)
    /\ doc_tags' \in TagLists(tags)
    /\ pc' = "done"
    /\ UNCHANGED <<app_name, scanned, all_routes, origin, paths, tags, ri, mi>>

Next ==
    \/ \E f \in Files : WalkFile(f)
    \/ EndWalk
    \/ NextRoute
    \/ NextMethod
    \/ Finish

Spec == Init /\ [][Next]_vars

(***************************************************************************)
(* Vocabulary of the properties                                            *)
(***************************************************************************)
Routes == 1..Len(all_routes)

\* the declaration: parameter j of the node has no default value
\* (Python attaches the defaults to the trailing parameters)
HasNoDefault(node, j) == j <= Len(node.args) - Len(node.defaults)

\* the indices of the keywords named methods (Python rejects a repeated keyword)
MethodsKeywords(decorator) ==
    {k \in 1..Len(decorator.keywords) : decorator.keywords[k].arg = "methods"}

MethodsValue(decorator) ==
    decorator.keywords[CHOOSE k \in MethodsKeywords(decorator) : TRUE].value

IsLiteralList(expr) ==
    /\ expr.kind = "List"
    /\ \A e \in 1..Len(expr.elts) : expr.elts[e].kind = "Constant"

IsLiteral(expr) == expr.kind = "Constant"

Malformed(decorator) ==
    /\ MethodsKeywords(decorator) # {}
    /\ ~IsLiteralList(MethodsValue(decorator))
    /\ ~IsLiteral(MethodsValue(decorator))

\* the names of the required parameters, in declaration order
RequiredNames(params) ==
    LET req == {j \in 1..Len(params) : params[j].required}
        nth(k) == CHOOSE j \in req : Cardinality({h \in req : h < j}) = k - 1
    IN  [k \in 1..Cardinality(req) |-> params[nth(k)].name]

JsonSchema(operation) == operation.requestBody.content["application/json"].schema

\* the walked nodes of a tree that are function definitions carrying a
\* call-form decorator whose attribute name is whitelist
MatchingFunctions(tree) ==
    {k \in 1..Len(Walk(tree)) :
        /\ Walk(tree)[k].kind = "FunctionDef"
        /\ \E d \in 1..Len(Walk(tree)[k].decorator_list) :
              LET dec == Walk(tree)[k].decorator_list[d]
              IN  dec.call /\ dec.func.kind = "Attribute" /\ dec.func.attr = "whitelist"}

RECURSIVE CountMatching(_)
CountMatching(files) ==
    IF files = <<>> THEN 0
    ELSE (IF EndsWith(Head(files).file, DotPy)
          THEN Cardinality(MatchingFunctions(Head(files).tree)) ELSE 0)
         + CountMatching(Tail(files))

\* (i, j) precedes (h, l) in the order generate_openapi_spec processes methods
Before(a, b) == a[1] < b[1] \/ (a[1] = b[1] /\ a[2] <= b[2])

\* the (route, method) pairs that store under paths[p][k]
Writers(p, k) ==
    UNION {{<<i, j>> : j \in {h \in 1..Len(all_routes[i].method) :
                                /\ all_routes[i].path = p
                                /\ Lower(all_routes[i].method[h].v) = k}} : i \in Routes}

LastWriter(p, k) == CHOOSE w \in Writers(p, k) : \A x \in Writers(p, k) : Before(x, w)

(***************************************************************************)
(* C1: a ParamRecord is required iff its parameter has no default, and the *)
(* POST operation of f(a, b=None) lists exactly <<a>> as required with      *)
(* both a and b among the properties.  The code pads the defaults at the   *)
(* wrong end (lines 38-42), so the property is violated.                   *)
(***************************************************************************)
C1_RequiredIffNoDefault ==
    /\ \A i \in Routes : \A j \in 1..Len(all_routes[i].params) :
          all_routes[i].params[j].required <=> HasNoDefault(origin[i].node, j)
    /\ \A i \in Routes :
          (/\ pc = "done"
           /\ Len(origin[i].node.args) = 2
           /\ Len(origin[i].node.defaults) = 1
           /\ all_routes[i].method = <<Str(POST)>>
           /\ Len(all_routes) = 1)
          => /\ JsonSchema(paths[all_routes[i].path][post]).required = <<"a">>
             /\ DOMAIN JsonSchema(paths[all_routes[i].path][post]).properties = {"a", "b"}

C3_MethodsDerivation ==
    \A i \in Routes :
        LET dec == origin[i].decorator
        IN  /\ MethodsKeywords(dec) = {} => all_routes[i].method = <<Str(POST)>>
            /\ (MethodsKeywords(dec) # {} /\ IsLiteralList(MethodsValue(dec))) =>
                 /\ Len(all_routes[i].method) = Len(MethodsValue(dec).elts)
                 /\ \A e \in 1..Len(MethodsValue(dec).elts) :
                       all_routes[i].method[e] = MethodsValue(dec).elts[e].value
            /\ (MethodsKeywords(dec) # {} /\ IsLiteral(MethodsValue(dec))) =>
                 all_routes[i].method = <<MethodsValue(dec).value>>

C3_Witness ==
    \E i, j, k \in Routes :
        /\ MethodsKeywords(origin[i].decorator) = {}
        /\ all_routes[i].method = <<Str(POST)>>
        /\ MethodsKeywords(origin[j].decorator) # {}
        /\ MethodsValue(origin[j].decorator) = Const(Str(GET))
        /\ all_routes[j].method = <<Str(GET)>>
        /\ MethodsKeywords(origin[k].decorator) # {}
        /\ MethodsValue(origin[k].decorator).kind = "List"
        /\ all_routes[k].method = <<Str(PUT), Str(GET)>>

(***************************************************************************)
(* C4: all parameters of a route carry one location: body iff "POST" or    *)
(* "PUT" occurs in the route's methods, query otherwise.                   *)
(***************************************************************************)
C4_ParamLocation ==
    \A i \in Routes : \A j \in 1..Len(all_routes[i].params) :
        all_routes[i].params[j].in =
            (IF \E e \in 1..Len(all_routes[i].method) :
                    all_routes[i].method[e] \in {Str(POST), Str(PUT)}
             THEN "body" ELSE "query")

C4_Witness ==
    \E i, j, k \in Routes :
        /\ all_routes[i].method = <<Str(GET)>>
        /\ Len(all_routes[i].params) = 2
        /\ \A a \in 1..2 : all_routes[i].params[a].in = "query"
        /\ all_routes[j].method = <<Str(POST)>>
        /\ Len(all_routes[j].params) = 2
        /\ \A a \in 1..2 : all_routes[j].params[a].in = "body"
        /\ all_routes[k].method = <<Str(PUT), Str(GET)>>
        /\ Len(all_routes[k].params) = 2
        /\ \A a \in 1..2 : all_routes[k].params[a].in = "body"

(***************************************************************************)
(* C5: the path of a route is "/api/methods/" + lower(app name) + ".api."  *)
(* + the file's base name without extension + "." + the function name,     *)
(* whatever the directory; app MyA, file U, function G gives               *)
(* /api/methods/mya.api.U.G.                                               *)
(***************************************************************************)
C5_PathFormula ==
    \A i \in Routes :
        /\ all_routes[i].path =
              PathPrefix \o [c \in 1..Len(app_name) |-> LowerChar(app_name[c])]
              \o <<".", "a", "p", "i", ".">> \o origin[i].file.stem
              \o <<".">> \o origin[i].node.name
        /\ (app_name = <<"M", "y", "A">> /\ origin[i].file.stem = <<"U">>
            /\ origin[i].node.name = <<"G">>)
           => all_routes[i].path =
                <<"/", "a", "p", "i", "/", "m", "e", "t", "h", "o", "d", "s", "/",
                  "m", "y", "a", ".", "a", "p", "i", ".", "U", ".", "G">>

C5_Witness ==
    \E i, j \in Routes :
        /\ app_name = <<"M", "y", "A">>
        /\ origin[i].file.dir = "sub"
        /\ origin[i].file.stem = <<"U">>
        /\ origin[i].node.name = <<"G">>
        /\ origin[j].file.dir = ""
        /\ origin[j].file.stem = <<"a", ".", "b">>

(***************************************************************************)
(* C6: a methods value that is neither a list of literals nor a single     *)
(* literal never makes the extraction fail, and the route's methods are    *)
(* <<"POST">>.  A list with a non-literal element raises at line 32, so    *)
(* the property is violated.                                               *)
(***************************************************************************)
C6_MalformedFallsBack ==
    /\ pc # "extract_raised"
    /\ \A i \in Routes :
          Malformed(origin[i].decorator) => all_routes[i].method = <<Str(POST)>>

(***************************************************************************)
(* C7: in the returned document the tags array holds one entry {name: t}   *)
(* for each distinct tag among the routes, no other entry, and no tag      *)
(* twice.                                                                  *)
(***************************************************************************)
C7_TagsDeduplicated ==
    pc = "done" =>
        /\ {doc_tags[i] : i \in 1..Len(doc_tags)}
             = {[name |-> all_routes[r].tag] : r \in Routes}
        /\ \A i, j \in 1..Len(doc_tags) : doc_tags[i] = doc_tags[j] => i = j

C7_Witness ==
    /\ pc = "done"
    /\ Len(doc_tags) = 1
    /\ Len(all_routes) >= 3
    /\ \E i, j \in Routes :
          /\ origin[i].file # origin[j].file
          /\ all_routes[i].tag = all_routes[j].tag
    /\ \E i, j \in Routes :
          /\ origin[i].file = origin[j].file
          /\ i # j

(***************************************************************************)
(* C8: in the returned document every paths[p][k] is the operation of the  *)
(* last route (and its last method) in processing order with path p whose  *)
(* method lower-cases to k, and every (route, method) pair has its key     *)
(* present: a later route overwrites an earlier one under the same key     *)
(* and leaves the other keys of the path in place.                         *)
(***************************************************************************)
C8_LastWriterWins ==
    pc = "done" =>
        /\ \A p \in DOMAIN paths : \A k \in DOMAIN paths[p] :
              /\ Writers(p, k) # {}
              /\ LET w == LastWriter(p, k)
                 IN  paths[p][k] = Operation(all_routes[w[1]], all_routes[w[1]].method[w[2]])
        /\ \A i \in Routes : \A j \in 1..Len(all_routes[i].method) :
              /\ all_routes[i].path \in DOMAIN paths
              /\ Lower(all_routes[i].method[j].v) \in DOMAIN paths[all_routes[i].path]

C8_Witness ==
    /\ pc = "done"
    /\ \E i, j \in Routes :
          /\ i < j
          /\ all_routes[i].path = all_routes[j].path
          /\ all_routes[i].method = <<Str(GET), Str(POST)>>
          /\ all_routes[j].method = <<Str(post)>>
          /\ paths[all_routes[i].path][post] = Operation(all_routes[j], Str(post))
          /\ paths[all_routes[i].path][post] # Operation(all_routes[i], Str(POST))
          /\ paths[all_routes[i].path][<<"g", "e", "t">>] = Operation(all_routes[i], Str(GET))

(***************************************************************************)
(* C9: extract_routes_from_file returns exactly one route for each         *)
(* function definition carrying a call-form whitelist decorator and none   *)
(* for any other function; a decorator that is not a call produces none.   *)
(* A function carrying the decorator twice yields two routes (lines        *)
(* 17-72), so the property is violated.                                    *)
(***************************************************************************)
C9_OneRoutePerFunction ==
    /\ pc # "extract_raised" => Len(all_routes) = CountMatching(scanned)
    /\ \A i \in Routes : origin[i].decorator.call

(***************************************************************************)
(* C10: every parameter listed in the parameters array of an operation of  *)
(* the document has location query.  A route whose methods mix POST/PUT    *)
(* with another verb lists its body parameters under the other verb, so    *)
(* the property is violated.                                               *)
(***************************************************************************)
C10_ParametersAreQuery ==
    \A p \in DOMAIN paths : \A k \in DOMAIN paths[p] :
        \A j \in 1..Len(paths[p][k].parameters) :
            paths[p][k].parameters[j].in = "query"

====
